---- MODULE Spec2Model ----
\* A model of the slab heap of src/src/memory/slab.rs: the router
\* Heap::layout_to_allocator, the composite Heap (seven slabs and a
\* linked-list allocator) and the spin-locked wrapper LockedHeap.
EXTENDS Integers, Sequences, FiniteSets, TLC

VARIABLES
    heap,       \* the Heap: [slabs: tag -> free list, ll: the linked-list allocator]
    hstart,     \* heap_start_addr the Heap was built over
    hsize,      \* heap_size the Heap was built over
    live,       \* allocations handed out and not yet freed: [ptr, layout, by]
    last,       \* the last completed Heap call and what it returned
    base,       \* per slab, the block addresses the slab was given (new and grow)
    cursor,     \* first address of caller memory not yet given to the Heap
    nGrown,     \* number of grow calls made
    populated,  \* LockedHeap: the Option<Heap> slot is Some
    lock,       \* LockedHeap: the thread holding the spin lock, 0 when free
    pc,         \* per thread, its position inside a LockedHeap call
    treg,       \* per thread, the call in progress and its locals
    unwinds,    \* the build's panic strategy: TRUE unwinds, FALSE never returns
    nInit,      \* LockedHeap: number of init calls made
    dup,        \* an allocation returned a pointer some caller still held
    rin,        \* routing check: the layout given to layout_to_allocator
    rout,       \* routing check: the tag it returned
    xstate      \* exhaustion scenario: [phase, n, layout]

vars == <<heap, hstart, hsize, live, last, base, cursor, nGrown,
          populated, lock, pc, treg, unwinds, nInit, dup, rin, rout, xstate>>

-----------------------------------------------------------------------------
\* Program constants

NUM_OF_SLABS == 8
MIN_SLAB_SIZE == 4096
MIN_HEAP_SIZE == NUM_OF_SLABS * MIN_SLAB_SIZE
HEAP_SIZE == 8 * 4096

\* enum HeapAllocator
Slab64Bytes == "Slab64Bytes"
Slab128Bytes == "Slab128Bytes"
Slab256Bytes == "Slab256Bytes"
Slab512Bytes == "Slab512Bytes"
Slab1024Bytes == "Slab1024Bytes"
Slab2048Bytes == "Slab2048Bytes"
Slab4096Bytes == "Slab4096Bytes"
LinkedListAllocator == "LinkedListAllocator"

SlabTags ==
    <<Slab64Bytes, Slab128Bytes, Slab256Bytes, Slab512Bytes,
      Slab1024Bytes, Slab2048Bytes, Slab4096Bytes>>

SlabClasses == {SlabTags[i] : i \in 1..Len(SlabTags)}

HeapAllocator == SlabClasses \cup {LinkedListAllocator}

\* The block size each slab of the Heap is constructed with.
BlockSize(tag) ==
    CASE tag = Slab64Bytes -> 64
      [] tag = Slab128Bytes -> 128
      [] tag = Slab256Bytes -> 256
      [] tag = Slab512Bytes -> 512
      [] tag = Slab1024Bytes -> 1024
      [] tag = Slab2048Bytes -> 2048
      [] tag = Slab4096Bytes -> 4096

\* Positions that count from one: every range is pushed up by one slab_size
SlabIndex_from_one(tag) ==
    CASE tag = Slab64Bytes -> 1
      [] tag = Slab128Bytes -> 2
      [] tag = Slab256Bytes -> 3
      [] tag = Slab512Bytes -> 4
      [] tag = Slab1024Bytes -> 5
      [] tag = Slab2048Bytes -> 6
      [] tag = Slab4096Bytes -> 7
      [] tag = LinkedListAllocator -> 8

\* Position of a sub-allocator in the Heap (0 .. 7), the multiple of
\* slab_size at which its range starts.
SlabIndex(tag) ==
    CASE tag = Slab64Bytes -> 0
      [] tag = Slab128Bytes -> 1
      [] tag = Slab256Bytes -> 2
      [] tag = Slab512Bytes -> 3
      [] tag = Slab1024Bytes -> 4
      [] tag = Slab2048Bytes -> 5
      [] tag = Slab4096Bytes -> 6
      [] tag = LinkedListAllocator -> 7

NULL == 0
NoTag == "none"

Layout(size, align) == [size |-> size, align |-> align]

Pow2(n) == 2 ^ n

Max(a, b) == IF a >= b THEN a ELSE b

SetMin(S) == CHOOSE x \in S : \A y \in S : x <= y

Range(s) == {s[i] : i \in 1..Len(s)}

-----------------------------------------------------------------------------
\* Heap::layout_to_allocator

\* A router that compares the size strictly: a request of exactly one
\* block is pushed to the next class.
layout_to_allocator_strict(layout) ==
    IF layout.size > 4096 THEN LinkedListAllocator
    ELSE IF layout.size < 64 /\ layout.align <= 64 THEN Slab64Bytes
    ELSE IF layout.size < 128 /\ layout.align <= 128 THEN Slab128Bytes
    ELSE IF layout.size < 256 /\ layout.align <= 256 THEN Slab256Bytes
    ELSE IF layout.size < 512 /\ layout.align <= 512 THEN Slab512Bytes
    ELSE IF layout.size < 1024 /\ layout.align <= 1024 THEN Slab1024Bytes
    ELSE IF layout.size < 2048 /\ layout.align <= 2048 THEN Slab2048Bytes
    ELSE Slab4096Bytes

\* A router that looks at the size only.
layout_to_allocator_size_only(layout) ==
    IF layout.size > 4096 THEN LinkedListAllocator
    ELSE IF layout.size <= 64 THEN Slab64Bytes
    ELSE IF layout.size <= 128 THEN Slab128Bytes
    ELSE IF layout.size <= 256 THEN Slab256Bytes
    ELSE IF layout.size <= 512 THEN Slab512Bytes
    ELSE IF layout.size <= 1024 THEN Slab1024Bytes
    ELSE IF layout.size <= 2048 THEN Slab2048Bytes
    ELSE Slab4096Bytes

layout_to_allocator(layout) ==
    IF layout.size > 4096 THEN LinkedListAllocator
    ELSE IF layout.size <= 64 /\ layout.align <= 64 THEN Slab64Bytes
    ELSE IF layout.size <= 128 /\ layout.align <= 128 THEN Slab128Bytes
    ELSE IF layout.size <= 256 /\ layout.align <= 256 THEN Slab256Bytes
    ELSE IF layout.size <= 512 /\ layout.align <= 512 THEN Slab512Bytes
    ELSE IF layout.size <= 1024 /\ layout.align <= 1024 THEN Slab1024Bytes
    ELSE IF layout.size <= 2048 /\ layout.align <= 2048 THEN Slab2048Bytes
    ELSE Slab4096Bytes

-----------------------------------------------------------------------------
\* Bounds of the model

MaxStartPage == 1      \* heap_start_addr ranges over 4096 * (1 .. MaxStartPage)
MaxHeapUnits == 2      \* heap_size ranges over MIN_HEAP_SIZE * (1 .. MaxHeapUnits)
MaxLive == 2           \* callers hold at most this many allocations at a time
MaxGrow == 1           \* grow is called at most this many times
MaxAlignLog == 14      \* routing check: alignments 2^0 .. 2^MaxAlignLog

HeapStarts == {p * 4096 : p \in 1..MaxStartPage}
HeapSizes == {u * MIN_HEAP_SIZE : u \in 1..MaxHeapUnits}

\* The layouts callers of the Heap use in the model: one or two per routing
\* target that the scenarios of the specification name.
Layouts ==
    { Layout(8, 8), Layout(48, 128), Layout(4096, 8), Layout(64, 8192),
      Layout(8192, 8) }

-----------------------------------------------------------------------------
\* Slab (the fixed-block free-list allocator the Heap is composed of).
\* A free list is the sequence of free block addresses, head first.

SlabNew(start, length, block_size) ==
    [i \in 1..(length \div block_size) |-> start + (i - 1) * block_size]

SlabAllocate(fl) ==
    IF fl = <<>> THEN [fl |-> fl, ok |-> FALSE, ptr |-> NULL]
    ELSE [fl |-> Tail(fl), ok |-> TRUE, ptr |-> Head(fl)]

SlabDeallocate(fl, ptr) == <<ptr>> \o fl

SlabGrow(fl, start, length, block_size) ==
    SlabNew(start, length, block_size) \o fl

\* linked_list_allocator::Heap (the large allocator): the range
\* [bottom, bottom + size) and the regions handed out of it. Allocation is
\* first fit: the lowest aligned address whose region is wholly free.

LLNew(bottom, size) == [bottom |-> bottom, size |-> size, used |-> {}]

LLIsFree(ll, a, n) ==
    /\ a >= ll.bottom
    /\ a + n <= ll.bottom + ll.size
    /\ \A u \in ll.used : a + n <= u.addr \/ u.addr + u.size <= a

LLCandidates(ll, layout) ==
    { a \in { k * layout.align :
                k \in (ll.bottom \div layout.align)..
                      ((ll.bottom + ll.size - layout.size) \div layout.align) } :
        LLIsFree(ll, a, layout.size) }

LLAllocate(ll, layout) ==
    LET c == LLCandidates(ll, layout) IN
    IF c = {} THEN [ll |-> ll, ok |-> FALSE, ptr |-> NULL]
    ELSE LET a == SetMin(c) IN
         [ll |-> [ll EXCEPT !.used = @ \cup {[addr |-> a, size |-> layout.size]}],
          ok |-> TRUE, ptr |-> a]

LLDeallocate(ll, ptr, layout) ==
    [ll EXCEPT !.used = @ \ {[addr |-> ptr, size |-> layout.size]}]

LLExtend(ll, by) == [ll EXCEPT !.size = @ + by]

-----------------------------------------------------------------------------
\* Heap

\* let slab_size = heap_size / NUM_OF_SLABS, with a wrong divisor
slab_size_of_seven(heap_size) == heap_size \div (NUM_OF_SLABS - 1)

\* let slab_size = heap_size / NUM_OF_SLABS
slab_size_of(heap_size) == heap_size \div NUM_OF_SLABS

\* The assertions of Heap::new
HeapNewPre(heap_start_addr, heap_size) ==
    /\ heap_start_addr % 4096 = 0
    /\ heap_size >= MIN_HEAP_SIZE
    /\ heap_size % MIN_HEAP_SIZE = 0

\* A Heap::new whose second slab starts where the first one does
HeapNew_same_start(heap_start_addr, heap_size) ==
    LET slab_size == slab_size_of(heap_size) IN
    [ slabs |-> [tag \in SlabClasses |->
                    SlabNew(heap_start_addr +
                              (IF tag = Slab128Bytes THEN 0 ELSE SlabIndex(tag)) * slab_size,
                            slab_size, BlockSize(tag))],
      ll |-> LLNew(heap_start_addr + 7 * slab_size, slab_size) ]

HeapNew(heap_start_addr, heap_size) ==
    LET slab_size == slab_size_of(heap_size) IN
    [ slabs |-> [tag \in SlabClasses |->
                    SlabNew(heap_start_addr + SlabIndex(tag) * slab_size,
                            slab_size, BlockSize(tag))],
      ll |-> LLNew(heap_start_addr + 7 * slab_size, slab_size) ]

\* Heap::allocate: route, then delegate
HeapAllocate(h, layout) ==
    LET via == layout_to_allocator(layout) IN
    IF via = LinkedListAllocator
    THEN LET r == LLAllocate(h.ll, layout) IN
         [heap |-> [h EXCEPT !.ll = r.ll], ok |-> r.ok, ptr |-> r.ptr, via |-> via]
    ELSE LET r == SlabAllocate(h.slabs[via]) IN
         [heap |-> [h EXCEPT !.slabs[via] = r.fl], ok |-> r.ok, ptr |-> r.ptr, via |-> via]

\* A deallocate that finds the slab by the size alone
HeapDeallocate_by_size(h, ptr, layout) ==
    LET via == layout_to_allocator_size_only(layout) IN
    IF via = LinkedListAllocator
    THEN [h EXCEPT !.ll = LLDeallocate(@, ptr, layout)]
    ELSE [h EXCEPT !.slabs[via] = SlabDeallocate(@, ptr)]

\* A deallocate whose Slab128Bytes arm frees into the 64-byte slab
HeapDeallocate_wrong_arm(h, ptr, layout) ==
    LET via == layout_to_allocator(layout) IN
    IF via = LinkedListAllocator
    THEN [h EXCEPT !.ll = LLDeallocate(@, ptr, layout)]
    ELSE IF via = Slab128Bytes
    THEN [h EXCEPT !.slabs[Slab64Bytes] = SlabDeallocate(@, ptr)]
    ELSE [h EXCEPT !.slabs[via] = SlabDeallocate(@, ptr)]

\* Heap::deallocate
HeapDeallocate(h, ptr, layout) ==
    LET via == layout_to_allocator(layout) IN
    IF via = LinkedListAllocator
    THEN [h EXCEPT !.ll = LLDeallocate(@, ptr, layout)]
    ELSE [h EXCEPT !.slabs[via] = SlabDeallocate(@, ptr)]

\* A usable_size whose linked-list arm repeats the arm above it
HeapUsableSize_copied_arm(layout) ==
    LET via == layout_to_allocator(layout) IN
    IF via = LinkedListAllocator THEN <<layout.size, 4096>>
    ELSE <<layout.size, BlockSize(via)>>

\* Heap::usable_size
HeapUsableSize(layout) ==
    LET via == layout_to_allocator(layout) IN
    IF via = LinkedListAllocator THEN <<layout.size, layout.size>>
    ELSE <<layout.size, BlockSize(via)>>

\* A grow whose Slab128Bytes arm grows the 64-byte slab
HeapGrow_wrong_slab(h, mem_start_addr, mem_size, slab) ==
    IF slab = LinkedListAllocator
    THEN [h EXCEPT !.ll = LLExtend(@, mem_size)]
    ELSE IF slab = Slab128Bytes
    THEN [h EXCEPT !.slabs[Slab64Bytes] = SlabGrow(@, mem_start_addr, mem_size, 64)]
    ELSE [h EXCEPT !.slabs[slab] = SlabGrow(@, mem_start_addr, mem_size, BlockSize(slab))]

\* A grow that passes the start address to extend
HeapGrow_extend_start(h, mem_start_addr, mem_size, slab) ==
    IF slab = LinkedListAllocator
    THEN [h EXCEPT !.ll = LLExtend(@, mem_start_addr)]
    ELSE [h EXCEPT !.slabs[slab] = SlabGrow(@, mem_start_addr, mem_size, BlockSize(slab))]

\* Heap::grow
HeapGrow(h, mem_start_addr, mem_size, slab) ==
    IF slab = LinkedListAllocator
    THEN [h EXCEPT !.ll = LLExtend(@, mem_size)]
    ELSE [h EXCEPT !.slabs[slab] = SlabGrow(@, mem_start_addr, mem_size, BlockSize(slab))]

FreeSet(tag) == Range(heap.slabs[tag])

LivePtrs(tag) == {r.ptr : r \in {x \in live : layout_to_allocator(x.layout) = tag}}

BaseOf(h) == [tag \in SlabClasses |-> Range(h.slabs[tag])]

AlignUp(a, n) == ((a + n - 1) \div n) * n

-----------------------------------------------------------------------------
\* Values of the variables a scenario does not use

NThreads == 2
Threads == 1..NThreads

NoLayout == Layout(0, 1)

NoCall ==
    [op |-> "none", layout |-> NoLayout, ptr |-> NULL, ok |-> FALSE,
     via |-> NoTag, min |-> 0, max |-> 0]

NoHeap == HeapNew(0, 0)

NoReg ==
    [op |-> "none", layout |-> NoLayout, ptr |-> NULL, ok |-> FALSE,
     out |-> "none", newheap |-> NoHeap]

NoX == [phase |-> "off", n |-> 0, layout |-> NoLayout]

heapVars == <<heap, hstart, hsize, live, last, base, cursor, nGrown>>
lockVars == <<populated, lock, pc, treg, unwinds, nInit, dup>>
routeVars == <<rin, rout>>

FreshHeap(start, size) ==
    /\ HeapNewPre(start, size)
    /\ hstart = start
    /\ hsize = size
    /\ heap = HeapNew(start, size)
    /\ base = BaseOf(HeapNew(start, size))
    /\ cursor = start + size
    /\ nGrown = 0
    /\ live = {}
    /\ last = NoCall

IdleLock ==
    /\ populated = TRUE
    /\ lock = 0
    /\ pc = [t \in Threads |-> "idle"]
    /\ treg = [t \in Threads |-> NoReg]
    /\ unwinds = TRUE
    /\ nInit = 0
    /\ dup = FALSE

-----------------------------------------------------------------------------
\* The routing function on its own: a layout is drawn, then routed.

RouteSizes ==
    {0, 1, 8, 48} \cup
    { b + d : b \in {64, 128, 256, 512, 1024, 2048, 4096, 8192}, d \in {-1, 0, 1} }

RouteAligns == {Pow2(k) : k \in 0..MaxAlignLog}

InitRoute ==
    /\ rin \in {Layout(s, a) : s \in RouteSizes, a \in RouteAligns}
    /\ rout = NoTag
    /\ FreshHeap(4096, MIN_HEAP_SIZE)
    /\ IdleLock
    /\ xstate = NoX

Route ==
    /\ rout = NoTag
    /\ rout' = layout_to_allocator(rin)
    /\ UNCHANGED <<rin, heapVars, lockVars, xstate>>

NextRoute == Route

SpecRoute == InitRoute /\ [][NextRoute]_vars

-----------------------------------------------------------------------------
\* The Heap used directly by one caller

Init ==
    /\ \E start \in HeapStarts, size \in HeapSizes : FreshHeap(start, size)
    /\ IdleLock
    /\ rin = NoLayout
    /\ rout = NoTag
    /\ xstate = NoX

Allocate ==
    \E layout \in Layouts :
        /\ LET r == HeapAllocate(heap, layout) IN
           /\ r.ok => Cardinality(live) < MaxLive
           /\ heap' = r.heap
           /\ live' = IF r.ok
                      THEN live \cup {[ptr |-> r.ptr, layout |-> layout, by |-> 0]}
                      ELSE live
           /\ last' = [NoCall EXCEPT !.op = "allocate", !.layout = layout,
                                     !.ptr = r.ptr, !.ok = r.ok, !.via = r.via]
        /\ UNCHANGED <<hstart, hsize, base, cursor, nGrown, lockVars, routeVars, xstate>>

\* The caller frees an allocation it holds, with the layout it was made with.
Deallocate ==
    \E r \in live :
        /\ heap' = HeapDeallocate(heap, r.ptr, r.layout)
        /\ live' = live \ {r}
        /\ last' = [NoCall EXCEPT !.op = "deallocate", !.layout = r.layout,
                                  !.ptr = r.ptr, !.ok = TRUE,
                                  !.via = layout_to_allocator(r.layout)]
        /\ UNCHANGED <<hstart, hsize, base, cursor, nGrown, lockVars, routeVars, xstate>>

UsableSize ==
    \E layout \in Layouts :
        /\ last' = [NoCall EXCEPT !.op = "usable_size", !.layout = layout, !.ok = TRUE,
                                  !.via = layout_to_allocator(layout),
                                  !.min = HeapUsableSize(layout)[1],
                                  !.max = HeapUsableSize(layout)[2]]
        /\ UNCHANGED <<heap, hstart, hsize, live, base, cursor, nGrown,
                       lockVars, routeVars, xstate>>

MaxGrowBlocks == 2     \* a grow call adds 1 .. MaxGrowBlocks blocks (pages for Large)

\* The caller hands the Heap fresh memory past everything it gave before:
\* whole blocks for a slab, whole pages for the linked-list allocator (which
\* can only be extended where its range ends).
Grow ==
    \E slab \in HeapAllocator :
        /\ nGrown < MaxGrow
        /\ \E blocks \in 1..MaxGrowBlocks :
           LET mem_size == IF slab = LinkedListAllocator THEN blocks * MIN_SLAB_SIZE
                           ELSE blocks * BlockSize(slab)
               mem_start_addr == IF slab = LinkedListAllocator THEN cursor
                                 ELSE AlignUp(cursor, BlockSize(slab))
           IN
           /\ slab = LinkedListAllocator => cursor = heap.ll.bottom + heap.ll.size
           /\ heap' = HeapGrow(heap, mem_start_addr, mem_size, slab)
           /\ base' = IF slab = LinkedListAllocator THEN base
                      ELSE [base EXCEPT ![slab] =
                              @ \cup Range(SlabNew(mem_start_addr, mem_size, BlockSize(slab)))]
           /\ cursor' = mem_start_addr + mem_size
           /\ last' = [NoCall EXCEPT !.op = "grow", !.ptr = mem_start_addr,
                                     !.ok = TRUE, !.via = slab]
        /\ nGrown' = nGrown + 1
        /\ UNCHANGED <<hstart, hsize, live, lockVars, routeVars, xstate>>

Next == Allocate \/ Deallocate

Spec == Init /\ [][Next]_vars

\* The layouts of the caller that also grows the Heap: one per slab it
\* uses and one page-aligned request for the linked-list allocator.
GrowLayouts == { Layout(8, 8), Layout(4096, 8), Layout(8192, 4096) }

AllocateG ==
    \E layout \in GrowLayouts :
        /\ LET r == HeapAllocate(heap, layout) IN
           /\ r.ok => Cardinality(live) < MaxLive
           /\ heap' = r.heap
           /\ live' = IF r.ok
                      THEN live \cup {[ptr |-> r.ptr, layout |-> layout, by |-> 0]}
                      ELSE live
           /\ last' = [NoCall EXCEPT !.op = "allocate", !.layout = layout,
                                     !.ptr = r.ptr, !.ok = r.ok, !.via = r.via]
        /\ UNCHANGED <<hstart, hsize, base, cursor, nGrown, lockVars, routeVars, xstate>>

NextGrow == AllocateG \/ Deallocate \/ Grow

\* The heap of the repository's tests, HEAP_SIZE bytes, before it is grown
InitGrow ==
    /\ \E start \in HeapStarts : FreshHeap(start, HEAP_SIZE)
    /\ IdleLock
    /\ rin = NoLayout
    /\ rout = NoTag
    /\ xstate = NoX

SpecGrow == InitGrow /\ [][NextGrow]_vars

\* The caller that also asks for usable sizes between its calls
NextUsable == Allocate \/ Deallocate \/ UsableSize

SpecUsable == InitGrow /\ [][NextUsable]_vars

-----------------------------------------------------------------------------
\* Exhaustion of one slab of a fresh Heap: allocate one layout until the
\* Heap refuses, free any one of the blocks, allocate again.

XLayouts ==
    { Layout(BlockSize(tag), BlockSize(tag)) : tag \in SlabClasses } \cup
    { Layout(BlockSize(tag) \div 2 + 1, 8) : tag \in SlabClasses }

InitExhaust ==
    /\ \E start \in HeapStarts, size \in HeapSizes : FreshHeap(start, size)
    /\ IdleLock
    /\ rin = NoLayout
    /\ rout = NoTag
    /\ xstate \in {[phase |-> "fill", n |-> 0, layout |-> l] : l \in XLayouts}

XFill ==
    /\ xstate.phase = "fill"
    /\ LET r == HeapAllocate(heap, xstate.layout) IN
       /\ heap' = r.heap
       /\ live' = IF r.ok
                  THEN live \cup {[ptr |-> r.ptr, layout |-> xstate.layout, by |-> 0]}
                  ELSE live
       /\ last' = [NoCall EXCEPT !.op = "allocate", !.layout = xstate.layout,
                                 !.ptr = r.ptr, !.ok = r.ok, !.via = r.via]
       /\ xstate' = IF r.ok THEN [xstate EXCEPT !.n = @ + 1]
                    ELSE [xstate EXCEPT !.phase = "full"]
    /\ UNCHANGED <<hstart, hsize, base, cursor, nGrown, lockVars, routeVars>>

XFree ==
    /\ xstate.phase = "full"
    /\ \E r \in live :
        /\ heap' = HeapDeallocate(heap, r.ptr, r.layout)
        /\ live' = live \ {r}
        /\ last' = [NoCall EXCEPT !.op = "deallocate", !.layout = r.layout,
                                  !.ptr = r.ptr, !.ok = TRUE,
                                  !.via = layout_to_allocator(r.layout)]
    /\ xstate' = [xstate EXCEPT !.phase = "freed"]
    /\ UNCHANGED <<hstart, hsize, base, cursor, nGrown, lockVars, routeVars>>

XRetry ==
    /\ xstate.phase = "freed"
    /\ LET r == HeapAllocate(heap, xstate.layout) IN
       /\ heap' = r.heap
       /\ live' = IF r.ok
                  THEN live \cup {[ptr |-> r.ptr, layout |-> xstate.layout, by |-> 0]}
                  ELSE live
       /\ last' = [NoCall EXCEPT !.op = "allocate", !.layout = xstate.layout,
                                 !.ptr = r.ptr, !.ok = r.ok, !.via = r.via]
    /\ xstate' = [xstate EXCEPT !.phase = "done"]
    /\ UNCHANGED <<hstart, hsize, base, cursor, nGrown, lockVars, routeVars>>

NextExhaust == XFill \/ XFree \/ XRetry

SpecExhaust == InitExhaust /\ [][NextExhaust]_vars

-----------------------------------------------------------------------------
\* Properties of the router (checked under SpecRoute)

FittingBlocks(layout) ==
    { b \in {64, 128, 256, 512, 1024, 2048} : layout.size <= b /\ layout.align <= b }

TagOfBlock(b) == CHOOSE tag \in SlabClasses : BlockSize(tag) = b

\* C1: layout_to_allocator returns the first matching row of the ladder:
\* Large when size > 4096, else the slab of the smallest block B in
\* 64..2048 with size <= B and align <= B, else Slab-4096; and the boundary
\* (64, 64) is routed to Slab-64.
C1_RoutingLadder ==
    rout # NoTag =>
        /\ rout = IF rin.size > 4096 THEN LinkedListAllocator
                  ELSE IF FittingBlocks(rin) # {}
                       THEN TagOfBlock(SetMin(FittingBlocks(rin)))
                       ELSE Slab4096Bytes
        /\ (rin = Layout(64, 64) => rout = Slab64Bytes)

C1_Witness == rout = Slab64Bytes /\ rin = Layout(64, 64)

\* C2: a layout with size <= 4096 and alignment <= 4096 is routed to a slab
\* (never to the large allocator) whose block size is at least
\* max(size, alignment).
C2_RoutingTotality ==
    (rout # NoTag /\ rin.size <= 4096 /\ rin.align <= 4096) =>
        /\ rout \in SlabClasses
        /\ BlockSize(rout) >= Max(rin.size, rin.align)

C2_Witness == rout = Slab128Bytes /\ rin = Layout(48, 128)

-----------------------------------------------------------------------------
\* Properties of the Heap (checked under Spec)

\* C3: every pointer a successful allocate returns is a multiple of the
\* alignment of the layout it was asked for, whatever that alignment is.
C3_PointerAlignment ==
    (last.op = "allocate" /\ last.ok) => last.ptr % last.layout.align = 0

\* C4: a request with size > 4096 or alignment > 4096 is served by the
\* large (linked-list) allocator, on allocate and on deallocate.
C4_LargeServesBigRequests ==
    (/\ last.op \in {"allocate", "deallocate"}
     /\ (last.layout.size > 4096 \/ last.layout.align > 4096))
        => last.via = LinkedListAllocator

\* C5: with every deallocate reusing its allocation's pointer and layout,
\* each slab's free blocks are the blocks it started with less those still
\* held, so once the pairs are matched the free set is the starting one; and
\* after a deallocate an allocate of the same layout succeeds.
C5_RoundTrip ==
    /\ \A tag \in SlabClasses : FreeSet(tag) = base[tag] \ LivePtrs(tag)
    /\ last.op = "deallocate" => HeapAllocate(heap, last.layout).ok

C5_Witness ==
    /\ last.op = "deallocate"
    /\ live = {}
    /\ heap # HeapNew(hstart, hsize)
    /\ layout_to_allocator(last.layout) \in SlabClasses

-----------------------------------------------------------------------------
\* Exhaustion (checked under SpecExhaust)

XCapacity == (hsize \div 8) \div BlockSize(layout_to_allocator(xstate.layout))

\* C6: on a fresh Heap over H bytes a slab of block size B serves exactly
\* k = (H / 8) / B successive allocations, with k distinct pointers, the
\* next one fails, and after freeing any one block the next one succeeds.
C6_Exhaustion ==
    /\ xstate.phase = "fill" =>
         /\ xstate.n <= XCapacity
         /\ Cardinality({r.ptr : r \in live}) = xstate.n
    /\ xstate.phase = "full" =>
         /\ xstate.n = XCapacity
         /\ last.op = "allocate" /\ ~last.ok /\ last.ptr = NULL
    /\ xstate.phase = "done" => last.op = "allocate" /\ last.ok

C6_Witness ==
    /\ xstate.phase = "done"
    /\ xstate.n = 64
    /\ last.ok
    /\ last.via = Slab64Bytes

-----------------------------------------------------------------------------
\* LockedHeap(Mutex<Option<Heap>>) called by several threads.
\*
\* A call is: spin for the lock ("lock"), look at the slot and run the Heap
\* call on what it holds ("locked"), write the Heap's new state ("commit"),
\* then return, which drops the guard ("unlock"). A panic leaves the thread
\* at "panicked"; the guard is dropped only in a build whose panics unwind.

MaxInit == 1           \* init is called at most this many times

\* Over HEAP_SIZE bytes Slab-4096 has one block and the linked-list range
\* is too small for any request routed to it: both run out.
LockedLayouts == { Layout(4096, 8), Layout(8192, 8) }

\* The layouts of the threads that run allocate/deallocate pairs
PairLayouts == { Layout(128, 8), Layout(4096, 8) }

UninitMsgs ==
    { "allocate: heap not initialized", "deallocate: heap not initialized",
      "usable_size: heap not initialized", "allocate: heap not initialzied" }

Held(t) == {r \in live : r.by = t}

\* spin::Mutex::lock on a mutex nobody checks
MutexLock_unguarded(t) == TRUE

\* spin::Mutex::lock returns once the mutex is free
MutexLock(t) == lock = 0

\* dropping the MutexGuard
MutexUnlock(t) == IF lock = t THEN 0 ELSE lock

Panic(t, msg) ==
    /\ pc' = [pc EXCEPT ![t] = "panicked"]
    /\ treg' = [treg EXCEPT ![t].out = msg]
    /\ lock' = IF unwinds THEN MutexUnlock(t) ELSE lock

\* An alloc whose guard is dropped once the slot has been read, before the
\* Heap call has written its result
Alloc_alloc_early_drop(t) ==
    IF populated
    THEN LET r == HeapAllocate(heap, treg[t].layout) IN
         /\ treg' = [treg EXCEPT ![t].newheap = r.heap, ![t].ok = r.ok, ![t].ptr = r.ptr]
         /\ pc' = [pc EXCEPT ![t] = "commit"]
         /\ lock' = MutexUnlock(t)
    ELSE Panic(t, "allocate: heap not initialized")

\* impl Alloc for &LockedHeap: alloc
Alloc_alloc(t) ==
    IF populated
    THEN LET r == HeapAllocate(heap, treg[t].layout) IN
         /\ treg' = [treg EXCEPT ![t].newheap = r.heap, ![t].ok = r.ok, ![t].ptr = r.ptr]
         /\ pc' = [pc EXCEPT ![t] = "commit"]
         /\ UNCHANGED lock
    ELSE Panic(t, "allocate: heap not initialized")

\* impl Alloc for &LockedHeap: dealloc
Alloc_dealloc(t) ==
    IF populated
    THEN /\ treg' = [treg EXCEPT ![t].newheap =
                        HeapDeallocate(heap, treg[t].ptr, treg[t].layout),
                                 ![t].ok = TRUE]
         /\ pc' = [pc EXCEPT ![t] = "commit"]
         /\ UNCHANGED lock
    ELSE Panic(t, "deallocate: heap not initialized")

\* impl Alloc for &LockedHeap: usable_size
Alloc_usable_size(t) ==
    IF populated
    THEN /\ treg' = [treg EXCEPT ![t].ok = TRUE,
                                 ![t].ptr = HeapUsableSize(treg[t].layout)[2]]
         /\ pc' = [pc EXCEPT ![t] = "unlock"]
         /\ UNCHANGED lock
    ELSE Panic(t, "usable_size: heap not initialized")

\* impl GlobalAlloc for LockedHeap: alloc, up to the Heap call
GlobalAlloc_alloc(t) ==
    IF populated
    THEN LET r == HeapAllocate(heap, treg[t].layout) IN
         /\ treg' = [treg EXCEPT ![t].newheap = r.heap, ![t].ok = r.ok, ![t].ptr = r.ptr]
         /\ pc' = [pc EXCEPT ![t] = "commit"]
         /\ UNCHANGED lock
    ELSE Panic(t, "allocate: heap not initialzied")

\* A dealloc that hands every pointer, null included, to the Heap
GlobalAlloc_dealloc_unchecked(t) ==
    IF populated
    THEN /\ treg' = [treg EXCEPT ![t].newheap =
                        HeapDeallocate(heap, treg[t].ptr, treg[t].layout),
                                 ![t].ok = TRUE]
         /\ pc' = [pc EXCEPT ![t] = "commit"]
         /\ UNCHANGED lock
    ELSE Panic(t, "deallocate: heap not initialized")

\* A dealloc that returns on a null pointer before it looks at the slot
GlobalAlloc_dealloc_null_first(t) ==
    IF treg[t].ptr = NULL
    THEN /\ treg' = [treg EXCEPT ![t].ok = TRUE]
         /\ pc' = [pc EXCEPT ![t] = "unlock"]
         /\ UNCHANGED lock
    ELSE IF populated
    THEN /\ treg' = [treg EXCEPT ![t].newheap =
                        HeapDeallocate(heap, treg[t].ptr, treg[t].layout),
                                 ![t].ok = TRUE]
         /\ pc' = [pc EXCEPT ![t] = "commit"]
         /\ UNCHANGED lock
    ELSE Panic(t, "deallocate: heap not initialized")

\* impl GlobalAlloc for LockedHeap: dealloc
GlobalAlloc_dealloc(t) ==
    IF populated
    THEN IF treg[t].ptr # NULL
         THEN /\ treg' = [treg EXCEPT ![t].newheap =
                             HeapDeallocate(heap, treg[t].ptr, treg[t].layout),
                                      ![t].ok = TRUE]
              /\ pc' = [pc EXCEPT ![t] = "commit"]
              /\ UNCHANGED lock
         ELSE /\ treg' = [treg EXCEPT ![t].ok = TRUE]
              /\ pc' = [pc EXCEPT ![t] = "unlock"]
              /\ UNCHANGED lock
    ELSE Panic(t, "deallocate: heap not initialized")

\* impl GlobalAlloc for LockedHeap: alloc, what it does with the Heap's
\* answer: the pointer is returned, a failure panics
GlobalAlloc_alloc_result(t) ==
    IF treg[t].ok
    THEN /\ pc' = [pc EXCEPT ![t] = "unlock"]
         /\ UNCHANGED <<treg, lock>>
    ELSE Panic(t, "allocate: failed")

\* A thread starts a call. It allocates when it holds nothing and frees only
\* what it holds, with the layout it allocated with; the global-allocator
\* dealloc is also called with null.
Call(t) ==
    /\ pc[t] = "idle"
    /\ \/ \E op \in {"alloc", "galloc"}, layout \in LockedLayouts :
            /\ Held(t) = {}
            /\ treg' = [treg EXCEPT ![t] = [NoReg EXCEPT !.op = op, !.layout = layout]]
            /\ UNCHANGED <<live, nInit>>
       \/ \E op \in {"dealloc", "gdealloc"}, r \in Held(t) :
            /\ treg' = [treg EXCEPT ![t] =
                          [NoReg EXCEPT !.op = op, !.layout = r.layout, !.ptr = r.ptr]]
            /\ live' = live \ {r}
            /\ UNCHANGED nInit
       \/ \E layout \in LockedLayouts :
            /\ treg' = [treg EXCEPT ![t] =
                          [NoReg EXCEPT !.op = "gdealloc", !.layout = layout, !.ptr = NULL]]
            /\ UNCHANGED <<live, nInit>>
       \/ \E layout \in LockedLayouts :
            /\ treg' = [treg EXCEPT ![t] =
                          [NoReg EXCEPT !.op = "usable_size", !.layout = layout]]
            /\ UNCHANGED <<live, nInit>>
       \/ /\ nInit < MaxInit
          /\ nInit' = nInit + 1
          /\ treg' = [treg EXCEPT ![t] =
                        [NoReg EXCEPT !.op = "init", !.newheap = HeapNew(hstart, hsize)]]
          /\ UNCHANGED live
    /\ pc' = [pc EXCEPT ![t] = "lock"]
    /\ UNCHANGED <<heap, hstart, hsize, last, base, cursor, nGrown,
                   populated, lock, unwinds, dup, routeVars, xstate>>

Acquire(t) ==
    /\ pc[t] = "lock"
    /\ MutexLock(t)
    /\ lock' = t
    /\ pc' = [pc EXCEPT ![t] = "locked"]
    /\ UNCHANGED <<heapVars, populated, treg, unwinds, nInit, dup, routeVars, xstate>>

\* An init that stores its Heap only into an empty slot
LockedHeap_init_guarded(t) ==
    /\ pc[t] = "locked"
    /\ treg[t].op = "init"
    /\ populated' = TRUE
    /\ heap' = IF populated THEN heap ELSE treg[t].newheap
    /\ treg' = [treg EXCEPT ![t].ok = TRUE]
    /\ pc' = [pc EXCEPT ![t] = "unlock"]
    /\ UNCHANGED <<hstart, hsize, live, last, base, cursor, nGrown,
                   lock, unwinds, nInit, dup, routeVars, xstate>>

\* LockedHeap::init: the slot is overwritten with the Heap built before the
\* lock was taken
LockedHeap_init(t) ==
    /\ pc[t] = "locked"
    /\ treg[t].op = "init"
    /\ populated' = TRUE
    /\ heap' = treg[t].newheap
    /\ treg' = [treg EXCEPT ![t].ok = TRUE]
    /\ pc' = [pc EXCEPT ![t] = "unlock"]
    /\ UNCHANGED <<hstart, hsize, live, last, base, cursor, nGrown,
                   lock, unwinds, nInit, dup, routeVars, xstate>>

\* With the lock held: look at the slot, run the Heap call
Enter(t) ==
    /\ pc[t] = "locked"
    /\ CASE treg[t].op = "alloc" -> Alloc_alloc(t)
         [] treg[t].op = "dealloc" -> Alloc_dealloc(t)
         [] treg[t].op = "usable_size" -> Alloc_usable_size(t)
         [] treg[t].op = "galloc" -> GlobalAlloc_alloc(t)
         [] treg[t].op = "gdealloc" -> GlobalAlloc_dealloc(t)
         [] OTHER -> FALSE
    /\ UNCHANGED <<heapVars, populated, unwinds, nInit, dup, routeVars, xstate>>

\* The Heap call's writes reach the Heap
Commit(t) ==
    /\ pc[t] = "commit"
    /\ heap' = treg[t].newheap
    /\ IF treg[t].op = "galloc"
       THEN GlobalAlloc_alloc_result(t)
       ELSE /\ pc' = [pc EXCEPT ![t] = "unlock"]
            /\ UNCHANGED <<treg, lock>>
    /\ UNCHANGED <<hstart, hsize, live, last, base, cursor, nGrown,
                   populated, unwinds, nInit, dup, routeVars, xstate>>

\* The call returns to its caller; the guard is dropped
Return(t) ==
    /\ pc[t] = "unlock"
    /\ lock' = MutexUnlock(t)
    /\ pc' = [pc EXCEPT ![t] = "idle"]
    /\ LET gotPtr == treg[t].op \in {"alloc", "galloc"} /\ treg[t].ok IN
       /\ live' = IF gotPtr
                  THEN live \cup {[ptr |-> treg[t].ptr, layout |-> treg[t].layout, by |-> t]}
                  ELSE live
       /\ dup' = (dup \/ (gotPtr /\ \E r \in live : r.ptr = treg[t].ptr))
    /\ treg' = [treg EXCEPT ![t] = NoReg]
    /\ UNCHANGED <<heap, hstart, hsize, last, base, cursor, nGrown,
                   populated, unwinds, nInit, routeVars, xstate>>

\* LockedHeap::empty() or LockedHeap::new(start, size)
InitLocked ==
    /\ hstart \in HeapStarts
    /\ hsize = HEAP_SIZE
    /\ HeapNewPre(hstart, hsize)
    /\ populated \in BOOLEAN
    /\ heap = IF populated THEN HeapNew(hstart, hsize) ELSE NoHeap
    /\ base = BaseOf(HeapNew(hstart, hsize))
    /\ cursor = hstart + hsize
    /\ nGrown = 0
    /\ live = {}
    /\ last = NoCall
    /\ lock = 0
    /\ pc = [t \in Threads |-> "idle"]
    /\ treg = [t \in Threads |-> NoReg]
    /\ unwinds \in BOOLEAN
    /\ nInit = 0
    /\ dup = FALSE
    /\ rin = NoLayout
    /\ rout = NoTag
    /\ xstate = NoX

NextLocked ==
    \E t \in Threads :
        Call(t) \/ Acquire(t) \/ LockedHeap_init(t) \/ Enter(t) \/ Commit(t) \/ Return(t)

SpecLocked == InitLocked /\ [][NextLocked]_vars

\* SpecLocked with every thread scheduled fairly: a thread that can take a
\* step of its call eventually takes it, and a thread spinning on the mutex
\* gets it if it is free again and again. Issuing a call is never forced.
FairSpecLocked ==
    /\ SpecLocked
    /\ \A t \in Threads :
          /\ SF_vars(Acquire(t))
          /\ WF_vars(LockedHeap_init(t))
          /\ WF_vars(Enter(t))
          /\ WF_vars(Commit(t))
          /\ WF_vars(Return(t))

-----------------------------------------------------------------------------
\* Threads that each repeat: allocate, then deallocate what they got, through
\* the Alloc interface of one LockedHeap built by LockedHeap::new.

InitPairs ==
    /\ hstart \in HeapStarts
    /\ hsize = HEAP_SIZE
    /\ heap = HeapNew(hstart, hsize)
    /\ base = BaseOf(HeapNew(hstart, hsize))
    /\ cursor = hstart + hsize
    /\ nGrown = 0
    /\ live = {}
    /\ last = NoCall
    /\ IdleLock
    /\ rin = NoLayout
    /\ rout = NoTag
    /\ xstate = NoX

CallPair(t) ==
    /\ pc[t] = "idle"
    /\ IF Held(t) = {}
       THEN \E layout \in PairLayouts :
                /\ treg' = [treg EXCEPT ![t] =
                              [NoReg EXCEPT !.op = "alloc", !.layout = layout]]
                /\ UNCHANGED live
       ELSE \E r \in Held(t) :
                /\ treg' = [treg EXCEPT ![t] =
                              [NoReg EXCEPT !.op = "dealloc", !.layout = r.layout,
                                            !.ptr = r.ptr]]
                /\ live' = live \ {r}
    /\ pc' = [pc EXCEPT ![t] = "lock"]
    /\ UNCHANGED <<heap, hstart, hsize, last, base, cursor, nGrown,
                   populated, lock, unwinds, nInit, dup, routeVars, xstate>>

NextPairs ==
    \E t \in Threads : CallPair(t) \/ Acquire(t) \/ Enter(t) \/ Commit(t) \/ Return(t)

SpecPairs == InitPairs /\ [][NextPairs]_vars

-----------------------------------------------------------------------------
\* Properties of LockedHeap (checked under SpecLocked)

InHeapCall(t) == pc[t] \in {"locked", "commit", "unlock"}

\* C7: when the routed sub-allocator of a populated LockedHeap has no free
\* block, the global-allocator alloc returns null to its caller instead of
\* panicking, and the lock is not left held by the call.
C7_NullOnOutOfMemory ==
    \A t \in Threads :
        (/\ treg[t].op = "galloc"
         /\ pc[t] \in {"unlock", "panicked"}
         /\ treg[t].out \notin UninitMsgs
         /\ ~treg[t].ok)
            => /\ pc[t] = "unlock"
               /\ treg[t].ptr = NULL

\* C8: a call that finds the slot empty panics (and never returns, so it
\* hands out no pointer and changes no Heap state), whatever the call and
\* its arguments; a call that finds the slot populated does not take the
\* not-initialised panic.
C8_EmptyPanics ==
    [][\A t \in Threads :
          /\ (pc[t] = "locked" /\ pc'[t] # "locked" /\ treg[t].op # "init") =>
                IF populated
                THEN treg'[t].out \notin UninitMsgs
                ELSE /\ pc'[t] = "panicked"
                     /\ treg'[t].out \in UninitMsgs
                     /\ heap' = heap
                     /\ live' = live
          /\ pc[t] = "panicked" => pc'[t] = "panicked"]_vars

C8_Witness ==
    /\ populated
    /\ \E t \in Threads :
          /\ pc[t] = "panicked"
          /\ treg[t].op = "gdealloc"
          /\ treg[t].ptr = NULL
          /\ treg[t].out \in UninitMsgs
    /\ \E u \in Threads : pc[u] = "commit" /\ treg[u].op = "alloc" /\ treg[u].ok

\* C9: the global-allocator dealloc of a null pointer on a populated
\* LockedHeap changes nothing in the Heap (no slab free list, no
\* large-allocator state) for any layout, does not panic, and returns with
\* the lock released.
C9_DeallocNullNoOp ==
    [][\A t \in Threads :
          (/\ treg[t].op = "gdealloc"
           /\ treg[t].ptr = NULL
           /\ populated
           /\ InHeapCall(t))
              => /\ heap' = heap
                 /\ pc'[t] # "panicked"
                 /\ pc'[t] = "idle" => lock' = 0]_vars

C9_Witness ==
    /\ populated
    /\ live # {}
    /\ \E t \in Threads :
          /\ treg[t].op = "gdealloc"
          /\ treg[t].ptr = NULL
          /\ pc[t] = "unlock"

-----------------------------------------------------------------------------
\* Properties of concurrent pairs (checked under SpecPairs)

Quiescent == live = {} /\ \A t \in Threads : pc[t] = "idle"

\* C10: under every interleaving of the threads' allocate/deallocate pairs
\* no pointer is held by two allocations at once, and when every thread has
\* finished its pairs each slab has as many free blocks as at the start.
C10_ConcurrentPairs ==
    /\ ~dup
    /\ \A r1, r2 \in live : r1.ptr = r2.ptr => r1 = r2
    /\ Quiescent =>
          \A tag \in SlabClasses :
              Len(heap.slabs[tag]) = Len(HeapNew(hstart, hsize).slabs[tag])

C10_Witness ==
    /\ Quiescent
    /\ heap.slabs[Slab128Bytes] # HeapNew(hstart, hsize).slabs[Slab128Bytes]

-----------------------------------------------------------------------------
\* The target the routing ladder names for a layout, row by row
RoutedTo(layout) ==
    IF layout.size > 4096 THEN LinkedListAllocator
    ELSE IF FittingBlocks(layout) # {} THEN TagOfBlock(SetMin(FittingBlocks(layout)))
    ELSE Slab4096Bytes

\* C11: usable_size(layout) is (size, B) when the layout is routed to the
\* slab of block size B and (size, size) when it is routed to the large
\* allocator; it changes no allocator state; and min <= max.
C11_UsableSize ==
    [][last'.op = "usable_size" =>
          /\ heap' = heap
          /\ live' = live
          /\ last'.min = last'.layout.size
          /\ last'.max = IF RoutedTo(last'.layout) = LinkedListAllocator
                         THEN last'.layout.size
                         ELSE BlockSize(RoutedTo(last'.layout))
          /\ last'.min <= last'.max]_vars

C11_Witness ==
    /\ last.op = "usable_size"
    /\ last.layout = Layout(8192, 8)
    /\ last.max = 8192
    /\ live # {}

-----------------------------------------------------------------------------
\* Heap::new on its own: a start address and a size are drawn, the
\* assertions are checked, the Heap is built.

MaxNewHalfPages == 8   \* heap_start_addr ranges over 2048 * (1 .. MaxNewHalfPages)
MaxNewHalfUnits == 8   \* heap_size ranges over 16384 * (1 .. MaxNewHalfUnits)

InitNew ==
    /\ hstart \in {2048 * p : p \in 1..MaxNewHalfPages}
    /\ hsize \in {16384 * u : u \in 1..MaxNewHalfUnits}
    /\ heap = NoHeap
    /\ base = BaseOf(NoHeap)
    /\ cursor = hstart + hsize
    /\ nGrown = 0
    /\ live = {}
    /\ last = NoCall
    /\ IdleLock
    /\ rin = NoLayout
    /\ rout = NoTag
    /\ xstate = NoX

New ==
    /\ last.op = "none"
    /\ HeapNewPre(hstart, hsize)
    /\ heap' = HeapNew(hstart, hsize)
    /\ base' = BaseOf(HeapNew(hstart, hsize))
    /\ last' = [NoCall EXCEPT !.op = "new", !.ok = TRUE]
    /\ UNCHANGED <<hstart, hsize, live, cursor, nGrown, lockVars, routeVars, xstate>>

\* One of the assertions of Heap::new fails
NewAssertFails ==
    /\ last.op = "none"
    /\ ~HeapNewPre(hstart, hsize)
    /\ last' = [NoCall EXCEPT !.op = "panic"]
    /\ UNCHANGED <<heap, hstart, hsize, live, base, cursor, nGrown,
                   lockVars, routeVars, xstate>>

NextNew == New \/ NewAssertFails

SpecNew == InitNew /\ [][NextNew]_vars

SetMax(S) == CHOOSE x \in S : \A y \in S : x >= y

\* The range a sub-allocator of the Heap covers, read off the Heap:
\* position 1 .. 7 are the slabs in block-size order, 8 is the large one.
SubLo(i) ==
    IF i = 8 THEN heap.ll.bottom ELSE SetMin(Range(heap.slabs[SlabTags[i]]))

SubHi(i) ==
    IF i = 8 THEN heap.ll.bottom + heap.ll.size
    ELSE SetMax(Range(heap.slabs[SlabTags[i]])) + BlockSize(SlabTags[i])

\* C12: Heap::new gives the eight sub-allocators, in the order Slab-64 ..
\* Slab-4096, Large, ranges of heap_size / 8 bytes each, pairwise disjoint
\* and covering [heap_start, heap_start + heap_size) exactly; each slab
\* range starts aligned to its block size, its length is a positive
\* multiple of the block size, and its free list is exactly its slots.
C12_NewPartition ==
    last.op = "new" =>
        /\ \A i \in 1..7 : heap.slabs[SlabTags[i]] # <<>>
        /\ \A i \in 1..8 : SubHi(i) - SubLo(i) = hsize \div 8
        /\ SubLo(1) = hstart
        /\ \A i \in 1..7 : SubHi(i) = SubLo(i + 1)
        /\ SubHi(8) = hstart + hsize
        /\ \A i, j \in 1..8 : i < j => SubHi(i) <= SubLo(j)
        /\ \A i \in 1..7 :
              LET tag == SlabTags[i]
                  b == BlockSize(tag)
                  n == (hsize \div 8) \div b
              IN /\ SubLo(i) % b = 0
                 /\ n > 0
                 /\ n * b = hsize \div 8
                 /\ Len(heap.slabs[tag]) = n
                 /\ Range(heap.slabs[tag]) = {SubLo(i) + k * b : k \in 0..(n - 1)}

C12_Witness ==
    /\ last.op = "new"
    /\ hstart = 8192
    /\ hsize = 65536
    /\ Len(heap.slabs[Slab4096Bytes]) = 2

-----------------------------------------------------------------------------
TagPos(tag) == CHOOSE i \in 1..Len(SlabTags) : SlabTags[i] = tag

\* C13: a pointer returned by a successful allocate is the start of a block
\* slot inside the range of the sub-allocator the layout is routed to (so
\* it is aligned to that slab's block size); on a fresh 32 KiB heap at A,
\* allocate((8, 8)) returns a 64-aligned pointer in [A, A + 4096).
C13_PointerContainment ==
    (last.op = "allocate" /\ last.ok) =>
        LET via == RoutedTo(last.layout)
            len == hsize \div 8
        IN
        /\ IF via = LinkedListAllocator
           THEN /\ last.ptr >= hstart + 7 * len
                /\ last.ptr + last.layout.size <= hstart + hsize
           ELSE LET lo == hstart + (TagPos(via) - 1) * len
                    b == BlockSize(via)
                IN /\ lo <= last.ptr
                   /\ last.ptr + b <= lo + len
                   /\ (last.ptr - lo) % b = 0
                   /\ last.ptr % b = 0
        /\ (hsize = 32768 /\ last.layout = Layout(8, 8)) =>
              /\ hstart <= last.ptr
              /\ last.ptr < hstart + 4096
              /\ last.ptr % 64 = 0

C13_Witness ==
    /\ last.op = "allocate"
    /\ last.ok
    /\ last.layout = Layout(8, 8)
    /\ hsize = 32768
    /\ last.ptr = hstart + 64

-----------------------------------------------------------------------------
\* Properties of the Heap that is also grown (checked under SpecGrow)

\* C14: in every state reached by allocate, deallocate (with the
\* allocation's pointer and layout) and grow, for every slab the free-list
\* addresses and the allocated addresses are disjoint and together are
\* exactly the slab's slots; no address is on the free list twice, so the
\* list is no longer than the number of slots.
C14_SlabPartition ==
    \A tag \in SlabClasses :
        /\ FreeSet(tag) \cap LivePtrs(tag) = {}
        /\ FreeSet(tag) \cup LivePtrs(tag) = base[tag]
        /\ Cardinality(FreeSet(tag)) = Len(heap.slabs[tag])
        /\ Len(heap.slabs[tag]) <= Cardinality(base[tag])
        /\ \A p \in base[tag] : p % BlockSize(tag) = 0

C14_Witness ==
    /\ nGrown >= 1
    /\ last.op = "allocate"
    /\ last.ok
    /\ last.ptr >= hstart + hsize
    /\ Cardinality(live) = 2

\* C17: grow with a slab tag adds exactly the extra_length / block_size
\* slots of the extension range to that slab's free list, in front of the
\* blocks already there, and changes no other sub-allocator and no
\* allocation; grow with the Large tag extends the linked-list allocator by
\* extra_length only (the start address plays no part) and changes no slab.
C17_GrowFrame ==
    [][nGrown' = nGrown + 1 =>
          LET tag == last'.via
              start == last'.ptr
              len == cursor' - last'.ptr
          IN
          /\ live' = live
          /\ IF tag = LinkedListAllocator
             THEN /\ heap'.ll = [heap.ll EXCEPT !.size = @ + len]
                  /\ heap'.slabs = heap.slabs
             ELSE LET b == BlockSize(tag)
                      n == len \div b
                      new == {start + k * b : k \in 0..(n - 1)}
                  IN /\ n * b = len
                     /\ Len(heap'.slabs[tag]) = Len(heap.slabs[tag]) + n
                     /\ Range(SubSeq(heap'.slabs[tag], 1, n)) = new
                     /\ SubSeq(heap'.slabs[tag], n + 1, Len(heap'.slabs[tag]))
                          = heap.slabs[tag]
                     /\ new \cap Range(heap.slabs[tag]) = {}
                     /\ \A other \in SlabClasses \ {tag} :
                          heap'.slabs[other] = heap.slabs[other]
                     /\ heap'.ll = heap.ll]_vars

C17_Witness ==
    /\ last.op = "grow"
    /\ last.via = Slab64Bytes
    /\ cursor - last.ptr = 128
    /\ live # {}

-----------------------------------------------------------------------------
\* C15: at most one thread at a time is inside a Heap call of one LockedHeap;
\* a thread looks at the slot and runs the Heap call only while it holds the
\* lock, until the call has returned; so what a call writes is the Heap call
\* applied to the Heap as the previous holder of the lock left it.
C15_MutualExclusion ==
    /\ Cardinality({t \in Threads : InHeapCall(t)}) <= 1
    /\ \A t \in Threads : InHeapCall(t) => lock = t
    /\ \A t \in Threads :
          pc[t] = "commit" =>
              treg[t].newheap =
                  IF treg[t].op \in {"alloc", "galloc"}
                  THEN HeapAllocate(heap, treg[t].layout).heap
                  ELSE HeapDeallocate(heap, treg[t].ptr, treg[t].layout)

C15_Witness ==
    \E t, u \in Threads :
        /\ t # u
        /\ pc[t] = "commit"
        /\ treg[t].op = "alloc"
        /\ treg[t].ok
        /\ pc[u] = "lock"

-----------------------------------------------------------------------------
\* C16: allocate fails exactly when the sub-allocator the layout is routed
\* to has no free block for it, whatever the other sub-allocators hold; a
\* failed allocate changes nothing; an allocate or deallocate changes only
\* the sub-allocator its layout is routed to.
C16_NoFallback ==
    [][LET via == RoutedTo(last'.layout)
           others == \A tag \in SlabClasses \ {via} : heap'.slabs[tag] = heap.slabs[tag]
           large == via # LinkedListAllocator => heap'.ll = heap.ll
       IN
       /\ last'.op = "allocate" =>
            /\ ~last'.ok <=> IF via = LinkedListAllocator
                            THEN LLCandidates(heap.ll, last'.layout) = {}
                            ELSE heap.slabs[via] = <<>>
            /\ ~last'.ok => (heap' = heap /\ live' = live)
            /\ others
            /\ large
       /\ last'.op = "deallocate" => (others /\ large)]_vars

C16_Witness ==
    /\ last.op = "allocate"
    /\ ~last.ok
    /\ last.via = Slab4096Bytes
    /\ heap.slabs[Slab64Bytes] # <<>>
    /\ heap.slabs[Slab128Bytes] # <<>>

-----------------------------------------------------------------------------
\* C19: within a slab deallocate pushes the block on the head of the free
\* list and allocate pops the head: right after deallocate(p, layout) an
\* allocate routed to the same slab returns p and leaves the free list as
\* it was before the deallocate.
C19_LifoReuse ==
    [][LET via == RoutedTo(last'.layout) IN
       via \in SlabClasses =>
         /\ last'.op = "deallocate" =>
              heap'.slabs[via] = <<last'.ptr>> \o heap.slabs[via]
         /\ (/\ last.op = "deallocate"
             /\ last'.op = "allocate"
             /\ RoutedTo(last.layout) = via) =>
               /\ last'.ok
               /\ last'.ptr = last.ptr
               /\ heap'.slabs[via] = Tail(heap.slabs[via])]_vars

C19_Witness ==
    /\ last.op = "allocate"
    /\ last.ok
    /\ last.layout = Layout(8, 8)
    /\ last.ptr = hstart
    /\ \E r \in live : r.ptr = hstart + 64

-----------------------------------------------------------------------------
\* C18 as stated: once populated the slot stays populated, init populates
\* it, and an init that finds the slot populated leaves the Heap in it (and
\* the bookkeeping of its outstanding allocations) as it was.
InitStep(t) == pc[t] = "locked" /\ treg[t].op = "init" /\ pc'[t] = "unlock"

C18_OneShotInit ==
    [][/\ populated => populated'
       /\ \A t \in Threads :
            InitStep(t) => /\ populated'
                           /\ populated => heap' = heap]_vars

\* C18, amended: the slot is populated by new or by an init and is never
\* emptied again; no alloc, dealloc or usable_size call changes whether it
\* is populated; every init, the first or a later one, stores a Heap freshly
\* built over its region, so an init on a populated slot replaces the Heap
\* and forgets its outstanding allocations.
C18_InitOverwrites ==
    [][/\ populated => populated'
       /\ (\A t \in Threads : ~InitStep(t)) => populated' = populated
       /\ \A t \in Threads :
            InitStep(t) => /\ populated'
                           /\ heap' = HeapNew(hstart, hsize)]_vars

C18_Witness ==
    \E t \in Threads :
        /\ pc[t] = "unlock"
        /\ treg[t].op = "init"
        /\ live # {}
        /\ heap = HeapNew(hstart, hsize)

-----------------------------------------------------------------------------
\* C20: under fair scheduling, every alloc or dealloc call issued on a
\* populated LockedHeap, through either interface, eventually returns to
\* its caller.
C20_Progress ==
    \A t \in Threads :
        (/\ populated
         /\ pc[t] = "lock"
         /\ treg[t].op \in {"alloc", "galloc", "dealloc", "gdealloc"})
            ~> (pc[t] = "idle")

====
